---- MODULE Spec2Model ----
(***************************************************************************)
(* Model of the vehicle command subsystem of StatsForAdventure:            *)
(* app/command_handler.py (CommandHandler and its command_cache) driven by *)
(* concurrently handled requests, with the upstream RivianClient as an     *)
(* environment that replies, replies with nothing, or raises.              *)
(*                                                                         *)
(* Python dictionaries are records; dict.get(k, d) is Get(d, k, default).  *)
(* The cache maps a command id to a reference into a heap of dictionaries, *)
(* because get_command_status keeps a reference to the cached dictionary   *)
(* across its await and mutates it in place.                               *)
(***************************************************************************)
EXTENDS Integers, Sequences, FiniteSets, TLC

\* ---------------------------------------------------------------- bounds
NumProcs == 2
MaxTime == 1
\* how far, in clock units, the server's local time may be behind UTC
MaxUtcOffset == 2

\* ------------------------------------------------------- CommandStatus
PENDING == 0
EXECUTING == 1
FAILED == 2
COMPLETED == 3
UNKNOWN == 4

CommandStatus == {PENDING, EXECUTING, FAILED, COMPLETED, UNKNOWN}

\* ------------------------------------------------------------ universes
Procs == 1..NumProcs
CmdIds == {"c1", "c2", "c3"}
Vehicles == {"v1"}
\* members of the external VehicleCommand enum
VehicleCommand == {"wake_vehicle"}
CommandNames == VehicleCommand \cup {"bogus"}
\* the states upstream may report: the five known ones and one the enum lacks
UpstreamStates == CommandStatus \cup {UNKNOWN + 1}
ErrorMessages == {"timeout"}

PyNone == [none |-> TRUE]
EmptyDict == [empty |-> TRUE]
NoVehicle == "None"

\* datetime.now().isoformat(): a naive local timestamp
IsoNow(t) == [t |-> t, naive |-> TRUE]
\* createdAt as upstream formats it: an ISO string that datetime.fromisoformat
\* reads as a naive time, or one carrying a zone ("...Z")
UpstreamNaive == [t |-> 0, naive |-> TRUE]
UpstreamZoned == [t |-> 0, naive |-> FALSE]

\* ---------------------------------------------------- upstream payloads
BareReply(s) == [state |-> s]
FullReply(s, ts) == [state |-> s, command |-> "wake_vehicle", vehicleId |-> "v1",
                     createdAt |-> ts]
NoStateReply == [command |-> "wake_vehicle", vehicleId |-> "v1"]
\* what data["data"]["getVehicleCommand"] can hold
Payloads == {PyNone, EmptyDict, NoStateReply}
              \cup {BareReply(s) : s \in UpstreamStates}
              \cup {FullReply(EXECUTING, UpstreamZoned),
                    FullReply(COMPLETED, UpstreamNaive)}

\* the JSON bodies of get_vehicle_command_state, or a transport failure
StatusResponses == {[kind |-> "raise", message |-> m] : m \in ErrorMessages}
                     \cup {[kind |-> "json", hasData |-> FALSE]}
                     \cup {[kind |-> "json", hasData |-> TRUE, getVehicleCommand |-> r] :
                             r \in Payloads}

\* outcomes of the library's send_vehicle_command
SendResponses == {[kind |-> "raise", message |-> m] : m \in ErrorMessages}
                   \cup {[kind |-> "value", command_id |-> ""]}
                   \cup {[kind |-> "value", command_id |-> c] : c \in CmdIds}

\* Python truthiness of a dict-or-None
Truthy(d) == d # PyNone /\ d # EmptyDict
\* dict.get(key, default)
Get(d, key, default) == IF key \in DOMAIN d THEN d[key] ELSE default

\* ------------------------------------------------------------ the heap
MaxRefs == Cardinality(CmdIds) + NumProcs
ObjRefs == 1..MaxRefs
NoRef == 0
FreeObj == [free |-> TRUE]
NoOp == [name |-> "none"]
NoEvent == [name |-> "none"]

VARIABLES
    command_cache,   \* CommandHandler.command_cache: command id -> reference
    heap,            \* the dictionaries the references denote
    pc,              \* where each request is: idle, or suspended at an await
    op,              \* the call each suspended request runs, with its arguments
    cached,          \* the local `cached` of a suspended get_command_status
    now,             \* the clock read by datetime.now()
    last,            \* the call that returned in the step just taken, if any:
                     \* its arguments, the upstream response it got, what it
                     \* returned and how many client calls it made
    client_vehicles, \* RivianClient.vehicles: the ids of the vehicles it holds
    request,         \* the POST /vehicle/<id>/command being served, if any
    response,        \* the HTTP response returned in the step just taken, if any
    g,               \* flask.g as the last rate-limited request left it
    limited,         \* what rate_limit did with the request of the step just taken
    accepted,        \* per key, the times of the requests whose handler was run
    connections,     \* socket_manager.connections: sid -> user_id and vehicles
    vehicle_subscribers, \* socket_manager.vehicle_subscribers: vehicle -> sids
    sid_to_user,     \* socket_manager.sid_to_user: sid -> user id
    subscriptions,   \* RivianClient.subscriptions: the vehicles it holds an
                     \* unsubscribe function for
    closed,          \* the socket ids whose connection has ended
    event,           \* the socket event handled in the step just taken, if any
    cookies,         \* per browser, the SessionData its session cookie carries
    answer           \* the login-flow response of the step just taken, if any

vars == <<command_cache, heap, pc, op, cached, now, last,
          client_vehicles, request, response, g, limited, accepted,
          connections, vehicle_subscribers, sid_to_user, subscriptions,
          closed, event, cookies, answer>>
\* the state of the command route and of the client it shares
route_vars == <<client_vehicles, request, response>>
\* the state of the rate limiter
limit_vars == <<g, limited, accepted>>
\* the state outside the command handler and its routes
\* the state of the socket manager and of the client's subscriptions
sock_vars == <<connections, vehicle_subscribers, sid_to_user, subscriptions,
               closed, event>>
\* the state of the cookie-session login flow
login_vars == <<cookies, answer>>
web_vars == <<limit_vars, sock_vars, login_vars>>

\* smallest unused reference: the dictionary a `{...}` literal creates
Alloc(h) == CHOOSE r \in ObjRefs :
              h[r] = FreeObj /\ \A q \in ObjRefs : q < r => h[q] # FreeObj

\* dictionaries referenced by nothing are reclaimed
Collect(h, cc, loc) ==
    [r \in ObjRefs |->
        IF (\E c \in CmdIds : cc[c] = r) \/ (\E p \in Procs : loc[p] = r)
        THEN h[r] ELSE FreeObj]

InCache(c) == command_cache[c] # NoRef
\* the record the cache holds for c
Rec(c) == heap[command_cache[c]]

\* the call that just returned
Returned(p, o, resp, ret, nq, ns) ==
    [name |-> o.name, proc |-> p, op |-> o, resp |-> resp, returned |-> ret,
     queries |-> nq, sends |-> ns]

NoResp == [kind |-> "none"]
NoRequest == [pc |-> "none"]
NoResponse == [code |-> 0]

\* security.py rate_limit: the keys, f'rate_limit:{ip}:{request.path}'
Addresses == {"198.51.100.7"}
Paths == {"/auth/login", "/auth/verify-otp"}
Key(ip, path) == <<"rate_limit:", ip, ":", path>>
Keys == {Key(ip, path) : ip \in Addresses, path \in Paths}
\* an application context's g with no attribute set
EmptyG == [attrs |-> {}, keys |-> {}, rate_limit |-> [k \in Keys |-> <<>>]]
NoLimited == [code |-> 0]

\* socket_manager.py: socket ids, the vehicles asked for, user ids
Sids == {"s1", "s2"}
SockVehicles == {"v1", "v2"}
UserIds == {"u1"}
\* a key the dictionary does not hold
NoConnection == [present |-> FALSE]
NoSubscribers == [present |-> FALSE]
NoUser == "absent"
NoSockEvent == [name |-> "none"]
\* lines 90-93: the entry connect creates
NewConnection == [present |-> TRUE, user_id |-> "None", vehicles |-> {}]

\* backend/api/auth.py: the browsers, each with its cookie jar
Browsers == {"b1", "b2"}
NoCookie == [present |-> FALSE]
NoAnswer == [name |-> "none", code |-> 0]
\* schemas/session.py SessionData(): the defaults
SessionData ==
    [present |-> TRUE, rivian_authenticated |-> FALSE, otp_pending |-> FALSE,
     rivian_tokens |-> PyNone, vehicles |-> "none"]

Init ==
    /\ cookies = [b \in Browsers |-> NoCookie]
    /\ answer = NoAnswer
    /\ connections = [sid \in Sids |-> NoConnection]
    /\ vehicle_subscribers = [v \in SockVehicles |-> NoSubscribers]
    /\ sid_to_user = [sid \in Sids |-> NoUser]
    /\ subscriptions = {}
    /\ closed = {}
    /\ event = NoSockEvent
    /\ g = EmptyG
    /\ limited = NoLimited
    /\ accepted = [k \in Keys |-> <<>>]
    /\ command_cache = [c \in CmdIds |-> NoRef]
    /\ heap = [r \in ObjRefs |-> FreeObj]
    /\ pc = [p \in Procs |-> "idle"]
    /\ op = [p \in Procs |-> NoOp]
    /\ cached = [p \in Procs |-> NoRef]
    /\ now = 0
    /\ last = NoEvent
    /\ client_vehicles = {}
    /\ request = NoRequest
    /\ response = NoResponse

\* ------------------------------------------------------- RivianClient
\* mutant: the error body is returned to the caller instead of raising
ClientGetCommandStatusReturnsBody(resp) ==
    IF resp.kind = "raise" THEN resp
    ELSE IF resp.hasData THEN [kind |-> "value", value |-> resp.getVehicleCommand]
    ELSE [kind |-> "value", value |-> [errors |-> TRUE]]

\* RivianClient.get_command_status: the payload, or an exception
ClientGetCommandStatus(resp) ==
    IF resp.kind = "raise" THEN resp
    ELSE IF resp.hasData THEN [kind |-> "value", value |-> resp.getVehicleCommand]
    ELSE [kind |-> "raise", message |-> "Failed to get command status"]

\* RivianClient.send_vehicle_command passes the library's outcome through
ClientSendVehicleCommand(resp) == resp

\* ------------------------------------------------- CommandHandler views
CachedView(c, d) ==
    [status |-> "success", command_id |-> c, command_status |-> d.status,
     command |-> d.command, timestamp |-> d.timestamp, result |-> d.result]

\* mutant: the exception's text is left out of the message
ErrorRetPrefixOnly(parts) == [status |-> "error", message |-> <<parts[1]>>]

\* mutant: the exception is raised to the caller instead of being returned
ErrorRetRaised(parts) == [status |-> "raise", message |-> parts]

\* an error result; the message is the sequence of the f-string's parts
ErrorRet(parts) == [status |-> "error", message |-> parts]

\* mutant: the record is stored as already executing
NewRecordExecuting(command, vehicle_id, t) ==
    [command |-> command, vehicle_id |-> vehicle_id, status |-> EXECUTING,
     timestamp |-> IsoNow(t), result |-> PyNone]

\* the record execute_command stores (lines 71-77)
NewRecord(command, vehicle_id, t) ==
    [command |-> command, vehicle_id |-> vehicle_id, status |-> PENDING,
     timestamp |-> IsoNow(t), result |-> PyNone]

\* mutant: a reply without a state counts as PENDING
ReplyStatusDefaultsToPending(status_data) == Get(status_data, "state", PENDING)

\* the status get_command_status takes from a reply (lines 105 and 123)
ReplyStatus(status_data) == Get(status_data, "state", UNKNOWN)

\* mutant: only COMPLETED stops the polling
NeedsRefreshUnlessCompleted(d) == d.status \in {PENDING, EXECUTING, FAILED}

\* mutant: every status but COMPLETED and FAILED is polled again
NeedsRefreshUnlessTerminal(d) == d.status \notin {COMPLETED, FAILED}

\* whether get_command_status re-queries upstream for a cached record (line 100)
NeedsRefresh(d) == d.status \in {PENDING, EXECUTING}

\* mutant: the status is updated and the result forgotten
RefreshedStatusOnly(d, status_data) ==
    [d EXCEPT !.status = ReplyStatus(status_data)]

\* mutant: the refresh also takes the creation time from the reply
RefreshedWithCreatedAt(d, status_data) ==
    [d EXCEPT !.status = ReplyStatus(status_data), !.result = status_data,
              !.timestamp = Get(status_data, "createdAt", @)]

\* mutant: the refresh also takes the command name from the reply
RefreshedRenamed(d, status_data) ==
    [d EXCEPT !.status = ReplyStatus(status_data), !.result = status_data,
              !.command = Get(status_data, "command", "unknown")]

\* the in-place update of the cached dictionary (lines 105-107)
Refreshed(d, status_data) ==
    [d EXCEPT !.status = ReplyStatus(status_data), !.result = status_data]

\* mutant: the command name is taken without a default
SynthRecordNoDefault(status_data, t) ==
    [command |-> Get(status_data, "command", "None"),
     vehicle_id |-> Get(status_data, "vehicleId", NoVehicle),
     status |-> ReplyStatus(status_data),
     timestamp |-> Get(status_data, "createdAt", IsoNow(t)),
     result |-> status_data]

\* the record get_command_status synthesizes for an uncached id (lines 126-132)
SynthRecord(status_data, t) ==
    [command |-> Get(status_data, "command", "unknown"),
     vehicle_id |-> Get(status_data, "vehicleId", NoVehicle),
     status |-> ReplyStatus(status_data),
     timestamp |-> Get(status_data, "createdAt", IsoNow(t)),
     result |-> status_data]

\* the view returned for a synthesized record (lines 134-141)
SynthView(c, status_data) ==
    [status |-> "success", command_id |-> c,
     command_status |-> ReplyStatus(status_data),
     command |-> Get(status_data, "command", "unknown"),
     timestamp |-> Get(status_data, "createdAt", PyNone),
     result |-> status_data]

\* ------------------------------------------------------ execute_command
\* mutant: the name is not validated
ValidCommandAny(command) == TRUE

\* whether the name is a member of the enum (line 44)
ValidCommand(command) == command \in VehicleCommand

\* lines 41-61: validate the name, then call the client and suspend
ExecuteBegin(p, command, vehicle_id) ==
    /\ pc[p] = "idle"
    /\ LET o == [name |-> "execute_command", command |-> command,
                 vehicle_id |-> vehicle_id]
       IN IF ~ValidCommand(command)
          THEN /\ last' = Returned(p, o, NoResp,
                                   ErrorRet(<<"Invalid command: ", command>>), 0, 0)
               /\ UNCHANGED <<pc, op>>
          ELSE /\ op' = [op EXCEPT ![p] = o]
               /\ pc' = [pc EXCEPT ![p] = "send"]
               /\ last' = NoEvent
    /\ UNCHANGED <<command_cache, heap, cached, now>>

\* mutant: the returned id is not checked
NoCommandIdUnchecked(command_id) == FALSE

\* `if not command_id` (line 63)
NoCommandId(command_id) == command_id = ""

\* mutant: a send that raises is sent again
AfterSendRetry(out) == IF out.kind = "raise" THEN "send" ELSE "idle"

\* where execute_command goes once the send has returned or raised: every
\* branch of lines 63-90 returns to the caller
AfterSend(out) == "idle"

\* lines 53-90: the send returns or raises
ExecuteComplete(p, resp) ==
    /\ pc[p] = "send"
    /\ pc' = [pc EXCEPT ![p] = AfterSend(ClientSendVehicleCommand(resp))]
    /\ op' = [op EXCEPT ![p] = IF pc'[p] = "idle" THEN NoOp ELSE @]
    /\ LET out == ClientSendVehicleCommand(resp) IN
       IF out.kind = "raise"
       THEN /\ last' = Returned(p, op[p], resp,
                         ErrorRet(<<"Error executing command: ", out.message>>), 0, 1)
            /\ UNCHANGED <<command_cache, heap>>
       ELSE IF NoCommandId(out.command_id)
       THEN /\ last' = Returned(p, op[p], resp,
                                ErrorRet(<<"Failed to send command">>), 0, 1)
            /\ UNCHANGED <<command_cache, heap>>
       ELSE LET r == Alloc(heap)
                h == [heap EXCEPT ![r] = NewRecord(op[p].command, op[p].vehicle_id, now)]
                cc == [command_cache EXCEPT ![out.command_id] = r]
            IN /\ command_cache' = cc
               /\ heap' = Collect(h, cc, cached)
               /\ last' = Returned(p, op[p], resp,
                     [status |-> "success", command_id |-> out.command_id,
                      message |-> <<"Command ", op[p].command, " sent successfully">>],
                     0, 1)
    /\ UNCHANGED <<cached, now>>

\* --------------------------------------------------- get_command_status
\* the request asks for the id its own execute_command has just returned
RightAfterExecute(p, c) ==
    /\ last.name = "execute_command"
    /\ last.proc = p
    /\ last.returned.status = "success"
    /\ last.returned.command_id = c

\* lines 94-101 and 118-120: look the id up; a record that needs no refresh is
\* answered from the cache at once, otherwise the client is called and the
\* call suspends
GetStatusBegin(p, c) ==
    /\ pc[p] = "idle"
    /\ LET o == [name |-> "get_command_status", command_id |-> c,
                 after_execute |-> RightAfterExecute(p, c)]
       IN IF InCache(c) /\ ~NeedsRefresh(Rec(c))
          THEN /\ last' = Returned(p, o, NoResp, CachedView(c, Rec(c)), 0, 0)
               /\ UNCHANGED <<pc, op, cached>>
          ELSE /\ op' = [op EXCEPT ![p] = o]
               /\ cached' = [cached EXCEPT ![p] = command_cache[c]]
               /\ pc' = [pc EXCEPT ![p] =
                           IF InCache(c) THEN "status_cached" ELSE "status_new"]
               /\ last' = NoEvent
    /\ UNCHANGED <<command_cache, heap, now>>

\* lines 101-117: the query for a cached record returns or raises
GetStatusCachedComplete(p, resp) ==
    /\ pc[p] = "status_cached"
    /\ pc' = [pc EXCEPT ![p] = "idle"]
    /\ op' = [op EXCEPT ![p] = NoOp]
    /\ cached' = [cached EXCEPT ![p] = NoRef]
    /\ LET out == ClientGetCommandStatus(resp)
           c == op[p].command_id
           r == cached[p]
       IN
       IF out.kind = "raise"
       THEN /\ last' = Returned(p, op[p], resp,
                         ErrorRet(<<"Error getting command status: ", out.message>>), 1, 0)
            /\ command_cache' = command_cache
            /\ heap' = Collect(heap, command_cache, cached')
       ELSE IF Truthy(out.value)
       THEN LET h == [heap EXCEPT ![r] = Refreshed(heap[r], out.value)]
                cc == [command_cache EXCEPT ![c] = r]
            IN /\ command_cache' = cc
               /\ heap' = Collect(h, cc, cached')
               /\ last' = Returned(p, op[p], resp, CachedView(c, h[r]), 1, 0)
       ELSE /\ last' = Returned(p, op[p], resp, CachedView(c, heap[r]), 1, 0)
            /\ command_cache' = command_cache
            /\ heap' = Collect(heap, command_cache, cached')
    /\ UNCHANGED now

\* lines 120-147: the query for an uncached id returns or raises
GetStatusNewComplete(p, resp) ==
    /\ pc[p] = "status_new"
    /\ pc' = [pc EXCEPT ![p] = "idle"]
    /\ op' = [op EXCEPT ![p] = NoOp]
    /\ LET out == ClientGetCommandStatus(resp)
           c == op[p].command_id
       IN
       IF out.kind = "raise"
       THEN /\ last' = Returned(p, op[p], resp,
                         ErrorRet(<<"Error getting command status: ", out.message>>), 1, 0)
            /\ UNCHANGED <<command_cache, heap>>
       ELSE IF Truthy(out.value)
       THEN LET r == Alloc(heap)
                h == [heap EXCEPT ![r] = SynthRecord(out.value, now)]
                cc == [command_cache EXCEPT ![c] = r]
            IN /\ command_cache' = cc
               /\ heap' = Collect(h, cc, cached)
               /\ last' = Returned(p, op[p], resp, SynthView(c, out.value), 1, 0)
       ELSE /\ last' = Returned(p, op[p], resp,
                                ErrorRet(<<"Command ID not found: ", c>>), 1, 0)
            /\ UNCHANGED <<command_cache, heap>>
    /\ UNCHANGED <<cached, now>>

\* -------------------------------------------------- clean_command_cache
\* whether the sweep removes a record (lines 162-167); ages in clock units
Expired(d, max_age) ==
    \/ now - d.timestamp.t > max_age
    \/ d.status \in {COMPLETED, FAILED}

\* whether `now - datetime.fromisoformat(data['timestamp'])` can be computed
\* (lines 164-165): subtracting a zoned time from the naive now raises
AgeComputable(d) == d.timestamp.naive

\* the keys the scan collects (lines 162-168)
ToRemove(max_age) == {c \in CmdIds : InCache(c) /\ Expired(Rec(c), max_age)}

\* mutant: the pops are forgotten
PoppedNothing(cc, to_remove) == cc

\* the cache after the pops (lines 170-171)
Popped(cc, to_remove) == [c \in CmdIds |-> IF c \in to_remove THEN NoRef ELSE cc[c]]

\* the sweep as the call that just returned: what it returned or raised, and
\* the count it wrote to the log (line 173)
Swept(max_age, ret, n) ==
    [name |-> "clean_command_cache", max_age |-> max_age, returned |-> ret,
     logged |-> n]

\* lines 156-173: the scan raises out of the call, before anything is popped,
\* if one record's age cannot be computed; otherwise the collected keys are
\* popped, their number is logged and the call returns nothing
CleanCommandCache(max_age) ==
    /\ IF \E c \in CmdIds : InCache(c) /\ ~AgeComputable(Rec(c))
       THEN /\ UNCHANGED <<command_cache, heap>>
            /\ last' = Swept(max_age, [raise |-> "TypeError"], PyNone)
       ELSE LET cc == Popped(command_cache, ToRemove(max_age))
            IN /\ command_cache' = cc
               /\ heap' = Collect(heap, cc, cached)
               /\ last' = Swept(max_age, PyNone, Cardinality(ToRemove(max_age)))
    /\ UNCHANGED <<pc, op, cached, now>>

\* the clock advances
Tick ==
    /\ now < MaxTime
    /\ now' = now + 1
    /\ last' = NoEvent
    /\ UNCHANGED <<command_cache, heap, pc, op, cached>>

\* every request is either idle or suspended at its one await
AllIdle == \A p \in Procs : pc[p] = "idle"

\* ------------------------------------------- api/routes.py command_history
\* the orders in which a dictionary holding the ids S may be iterated
IterationOrders(S) ==
    {f \in [1..Cardinality(S) -> S] : \A i, j \in 1..Cardinality(S) : f[i] = f[j] => i = j}

\* the entry the route builds for a record (routes.py lines 199-204)
HistoryEntry(c, d) ==
    [command_id |-> c, command |-> d.command, status |-> d.status,
     timestamp |-> d.timestamp]

\* the loop of lines 197-204 over the items in the order `items`
RECURSIVE Collected(_, _, _)
Collected(items, vehicle_id, i) ==
    IF i > Len(items) THEN <<>>
    ELSE LET rest == Collected(items, vehicle_id, i + 1)
         IN IF Rec(items[i]).vehicle_id = vehicle_id
            THEN <<HistoryEntry(items[i], Rec(items[i]))>> \o rest
            ELSE rest

\* the sort key is the timestamp string: ISO-8601 text compares by its date
\* and time digits, whatever zone the text does or does not name
TextBefore(a, b) == a.timestamp.t < b.timestamp.t

\* list.sort(key=..., reverse=True) is stable: an element goes behind every
\* element that does not sort before it
RECURSIVE InsertDescending(_, _)
InsertDescending(sorted, e) ==
    IF sorted = <<>> THEN <<e>>
    ELSE IF TextBefore(Head(sorted), e) THEN <<e>> \o sorted
    ELSE <<Head(sorted)>> \o InsertDescending(Tail(sorted), e)

RECURSIVE SortedDescending(_, _)
SortedDescending(commands, n) ==
    IF n = 0 THEN <<>>
    ELSE InsertDescending(SortedDescending(commands, n - 1), commands[n])

\* routes.py lines 187-211: the history of one vehicle, read off the cache
CommandHistory(vehicle_id, items) ==
    /\ LET commands == Collected(items, vehicle_id, 1)
       IN last' = [name |-> "command_history", vehicle_id |-> vehicle_id,
                   returned |-> [status |-> "success",
                                 commands |-> SortedDescending(commands, Len(commands))]]
    /\ UNCHANGED <<command_cache, heap, pc, op, cached, now>>

\* ---------------------------------------------------------------------
\* Spec: the handler as the web application runs it. Requests are handled
\* concurrently against the one CommandHandler (api/routes.py, lines 17-25)
\* and interleave at the awaits.
ConcIds == {"c1"}
ConcPayloads == {PyNone, BareReply(PENDING), BareReply(EXECUTING),
                 BareReply(COMPLETED), BareReply(UNKNOWN)}
ConcStatusResponses ==
    {r \in StatusResponses : r.kind = "json" /\ r.hasData => r.getVehicleCommand \in ConcPayloads}
ConcSendResponses ==
    {r \in SendResponses : r.kind = "value" => r.command_id \in ConcIds \cup {""}}

Next ==
    \/ /\ \E p \in Procs, command \in CommandNames, v \in Vehicles : ExecuteBegin(p, command, v)
       /\ UNCHANGED <<route_vars, web_vars>>
    \/ /\ \E p \in Procs, resp \in ConcSendResponses : ExecuteComplete(p, resp)
       /\ UNCHANGED <<route_vars, web_vars>>
    \/ /\ \E p \in Procs, c \in ConcIds : GetStatusBegin(p, c)
       /\ UNCHANGED <<route_vars, web_vars>>
    \/ /\ \E p \in Procs, resp \in ConcStatusResponses : GetStatusCachedComplete(p, resp)
       /\ UNCHANGED <<route_vars, web_vars>>
    \/ /\ \E p \in Procs, resp \in ConcStatusResponses : GetStatusNewComplete(p, resp)
       /\ UNCHANGED <<route_vars, web_vars>>
    \/ /\ \E max_age \in 0..MaxTime : CleanCommandCache(max_age)
       /\ UNCHANGED <<route_vars, web_vars>>
    \/ /\ Tick
       /\ UNCHANGED <<route_vars, web_vars>>

Spec == Init /\ [][Next]_vars

\* ---------------------------------------------------------------------
\* SeqSpec: one caller issuing one call after another, each call running to
\* its return before the next starts, against every upstream response.
Caller == CHOOSE p \in Procs : \A q \in Procs : p <= q
SeqIds == {"c1", "c2"}
SeqSendResponses ==
    {r \in SendResponses : r.kind = "value" => r.command_id \in SeqIds \cup {""}}

SeqNext ==
    \/ /\ \E command \in CommandNames, v \in Vehicles : ExecuteBegin(Caller, command, v)
       /\ UNCHANGED <<route_vars, web_vars>>
    \/ /\ \E resp \in SeqSendResponses : ExecuteComplete(Caller, resp)
       /\ UNCHANGED <<route_vars, web_vars>>
    \/ /\ \E c \in SeqIds : GetStatusBegin(Caller, c)
       /\ UNCHANGED <<route_vars, web_vars>>
    \/ /\ \E resp \in StatusResponses : GetStatusCachedComplete(Caller, resp)
       /\ UNCHANGED <<route_vars, web_vars>>
    \/ /\ \E resp \in StatusResponses : GetStatusNewComplete(Caller, resp)
       /\ UNCHANGED <<route_vars, web_vars>>
    \/ /\ \E max_age \in 0..MaxTime : AllIdle /\ CleanCommandCache(max_age)
       /\ UNCHANGED <<route_vars, web_vars>>
    \/ /\ AllIdle /\ Tick
       /\ UNCHANGED <<route_vars, web_vars>>

SeqSpec == Init /\ [][SeqNext]_vars

\* =====================================================================
\* Properties
\* =====================================================================
Terminal == {COMPLETED, FAILED}

\* the view a caller is owed for record d stored under id c
ViewOf(c, d) ==
    [status |-> "success", command_id |-> c, command_status |-> d.status,
     command |-> d.command, timestamp |-> d.timestamp, result |-> d.result]

\* the payload of a response that carries one
Payload(resp) == resp.getVehicleCommand
HasPayload(resp) == resp.kind = "json" /\ resp.hasData
QueryRaises(resp) == resp.kind = "raise" \/ ~resp.hasData
SendFails(resp) == resp.kind = "raise" \/ resp.command_id = ""

CacheUnchanged == command_cache' = command_cache /\ heap' = heap

\* the step in which the caller's suspended call returns, having got `resp`
SendReturns(resp) ==
    pc[Caller] = "send" /\ last'.name = "execute_command"
      /\ resp = last'.resp /\ ExecuteComplete(Caller, resp)
CachedQueryReturns(resp) ==
    pc[Caller] = "status_cached" /\ last'.name = "get_command_status"
      /\ resp = last'.resp /\ GetStatusCachedComplete(Caller, resp)
NewQueryReturns(resp) ==
    pc[Caller] = "status_new" /\ last'.name = "get_command_status"
      /\ resp = last'.resp /\ GetStatusNewComplete(Caller, resp)

\* C1: a get_command_status call for an id whose cached status is COMPLETED or
\* FAILED makes no upstream query, returns the cached view and leaves the
\* cache as it was, so any number of successive calls do the same.
C1_TerminalFreeze ==
    [][\A c \in CmdIds :
         (InCache(c) /\ Rec(c).status \in Terminal /\ GetStatusBegin(Caller, c))
         => /\ last'.name = "get_command_status"
            /\ last'.queries = 0
            /\ last'.returned = ViewOf(c, Rec(c))
            /\ CacheUnchanged
            /\ pc'[Caller] = "idle"]_vars

C1_Witness ==
    /\ last.name = "get_command_status"
    /\ last.queries = 0
    /\ last.returned.status = "success"
    /\ last.returned.command_status \in Terminal

\* C2 as claimed: a get_command_status issued right after a successful
\* execute_command, for the id it returned, succeeds and reports PENDING.
C2_Original ==
    (last.name = "get_command_status" /\ last.op.after_execute)
    => /\ last.returned.status = "success"
       /\ last.returned.command_status = PENDING

\* C2 amended: a successful execute_command leaves a PENDING record under the
\* returned id; the get_command_status issued right after it finds that
\* record, queries upstream once, and reports PENDING when the reply is empty,
\* the reply's state (UNKNOWN if it has none) when the reply is not empty, and
\* an error when the query raises.
C2_Amended ==
    /\ (last.name = "execute_command" /\ last.returned.status = "success")
       => /\ InCache(last.returned.command_id)
          /\ Rec(last.returned.command_id).status = PENDING
    /\ (last.name = "get_command_status" /\ last.op.after_execute)
       => /\ last.queries = 1
          /\ IF QueryRaises(last.resp)
             THEN /\ last.returned.status = "error"
                  /\ last.returned.message[1] = "Error getting command status: "
             ELSE /\ last.returned.status = "success"
                  /\ last.returned.command_id = last.op.command_id
                  /\ last.returned.command_status =
                       IF Payload(last.resp) \in {PyNone, EmptyDict} THEN PENDING
                       ELSE IF "state" \in DOMAIN Payload(last.resp)
                            THEN Payload(last.resp).state ELSE UNKNOWN

C2_Witness ==
    /\ last.name = "get_command_status"
    /\ last.op.after_execute
    /\ last.returned.status = "success"
    /\ last.returned.command_status = PENDING

\* C3: execute_command with a name outside the vocabulary returns an error,
\* makes no send_vehicle_command call and leaves the cache exactly as it was.
C3_InvalidCommand ==
    [][\A command \in CommandNames, v \in Vehicles :
         (command \notin VehicleCommand /\ ExecuteBegin(Caller, command, v))
         => /\ last'.name = "execute_command"
            /\ last'.returned.status = "error"
            /\ last'.sends = 0
            /\ CacheUnchanged
            /\ \A c \in CmdIds : ~InCache(c) => command_cache'[c] = NoRef]_vars

C3_Witness ==
    /\ last.name = "execute_command"
    /\ last.op.command \notin VehicleCommand
    /\ last.returned.status = "error"
    /\ \E c \in CmdIds : InCache(c)
    /\ \E c \in CmdIds : ~InCache(c)

\* C4: when the send raises or returns no command id, execute_command returns
\* an error and the cache is unchanged.
C4_SendFailure ==
    [][(SendReturns(last'.resp) /\ SendFails(last'.resp))
         => /\ last'.name = "execute_command"
            /\ last'.returned.status = "error"
            /\ CacheUnchanged]_vars

C4_Witness ==
    /\ last.name = "execute_command"
    /\ last.sends = 1
    /\ last.returned.status = "error"
    /\ \E c \in CmdIds : InCache(c)

\* C5: when the upstream status query raises for an id that has a cache
\* entry, get_command_status returns an error and the record keeps its
\* status, result, command, vehicle_id and timestamp.
C5_QueryFailureKeepsRecord ==
    [][(CachedQueryReturns(last'.resp) /\ QueryRaises(last'.resp))
         => /\ last'.returned.status = "error"
            /\ command_cache' = command_cache
            /\ \A c \in CmdIds : InCache(c) => heap'[command_cache'[c]] = Rec(c)]_vars

C5_Witness ==
    /\ last.name = "get_command_status"
    /\ last.queries = 1
    /\ last.returned.status = "error"
    /\ InCache(last.op.command_id)
    /\ Rec(last.op.command_id).status \in {PENDING, EXECUTING}

\* C6 as claimed: whenever the query for a cached PENDING or EXECUTING record
\* is answered, the record's result is replaced by the reply and its status
\* by the reply's, and the view returned shows what the cache then holds.
C6_Original ==
    [][(CachedQueryReturns(last'.resp) /\ HasPayload(last'.resp))
         => LET c == op[Caller].command_id
                resp == last'.resp
            IN
            /\ last'.queries = 1
            /\ heap'[command_cache'[c]].result = Payload(resp)
            /\ last'.returned = ViewOf(c, heap'[command_cache'[c]])]_vars

\* C6 amended: the call makes exactly one upstream query; a non-empty reply
\* replaces the record's status (UNKNOWN if the reply has no state) and its
\* result, and nothing else of it; an empty reply leaves the record as it
\* was; either way the view returned shows what the cache then holds.
C6_Amended ==
    [][(CachedQueryReturns(last'.resp) /\ HasPayload(last'.resp))
         => LET c == op[Caller].command_id
                resp == last'.resp
                old == Rec(c)
                new == heap'[command_cache'[c]]
            IN
            /\ last'.queries = 1
            /\ last'.returned = ViewOf(c, new)
            /\ IF Payload(resp) \in {PyNone, EmptyDict}
               THEN new = old
               ELSE /\ new.result = Payload(resp)
                    /\ new.status = IF "state" \in DOMAIN Payload(resp)
                                    THEN Payload(resp).state ELSE UNKNOWN
                    /\ new.command = old.command
                    /\ new.vehicle_id = old.vehicle_id
                    /\ new.timestamp = old.timestamp]_vars

C6_Witness ==
    /\ last.name = "get_command_status"
    /\ last.queries = 1
    /\ HasPayload(last.resp)
    /\ Payload(last.resp) = BareReply(COMPLETED)
    /\ last.returned.command = "wake_vehicle"
    /\ Rec(last.op.command_id).status = COMPLETED
    /\ Rec(last.op.command_id).result = BareReply(COMPLETED)

\* C7: get_command_status for an id with no cache entry inserts an entry for
\* it when upstream has a record (the command name "unknown" when upstream
\* omits it) and succeeds; when upstream has none it fails with
\* command-not-found and the cache is unchanged.
C7_UncachedLookup ==
    [][(NewQueryReturns(last'.resp) /\ HasPayload(last'.resp))
         => LET c == op[Caller].command_id
                resp == last'.resp
            IN
            IF Payload(resp) \in {PyNone, EmptyDict}
            THEN /\ last'.returned.status = "error"
                 /\ last'.returned.message = <<"Command ID not found: ", c>>
                 /\ CacheUnchanged
            ELSE /\ last'.returned.status = "success"
                 /\ last'.returned.command_id = c
                 /\ command_cache'[c] # NoRef
                 /\ heap'[command_cache'[c]].command =
                      IF "command" \in DOMAIN Payload(resp)
                      THEN Payload(resp).command ELSE "unknown"
                 /\ heap'[command_cache'[c]].result = Payload(resp)]_vars

C7_Witness ==
    /\ last.name = "get_command_status"
    /\ last.queries = 1
    /\ HasPayload(last.resp)
    /\ "command" \notin DOMAIN Payload(last.resp)
    /\ last.returned.status = "success"
    /\ Rec(last.op.command_id).command = "unknown"

C9_ForwardOnly ==
    [][\A c \in CmdIds :
         (InCache(c) /\ command_cache'[c] = command_cache[c])
         => LET old == Rec(c).status
                new == heap'[command_cache'[c]].status
            IN /\ new \in CommandStatus
               /\ ~(old = EXECUTING /\ new = PENDING)
               /\ old \in Terminal => new = old]_vars

\* C10 as claimed: once a record's status is COMPLETED or FAILED, no later
\* commit of an upstream reply changes it, whatever the interleaving of the
\* get_command_status calls on that id.
C10_TerminalIsSink ==
    [][\A c \in CmdIds :
         (InCache(c) /\ Rec(c).status \in Terminal
            /\ command_cache'[c] = command_cache[c])
         => heap'[command_cache'[c]].status = Rec(c).status]_vars

\* C11 as claimed: the sweep is serialised against the reconciliation of the
\* same key: while a get_command_status is suspended between reading the
\* cached record and committing the reply, clean_command_cache does not remove
\* that record, and a record the sweep has removed is not put back by the
\* reconciliation that was in flight.
C11_EvictionSerialized ==
    [][\A p \in Procs :
         pc[p] = "status_cached"
         => LET c == op[p].command_id IN
            /\ (InCache(c) /\ pc'[p] = "status_cached") => command_cache'[c] # NoRef
            /\ (~InCache(c) /\ pc'[p] = "idle") => command_cache'[c] = NoRef]_vars

\* the ids the cache holds
CachedIds == {c \in CmdIds : InCache(c)}
CachedIdsAfter == {c \in CmdIds : command_cache'[c] # NoRef}
\* the step is a sweep
SweepReturns == last'.name = "clean_command_cache"

\* C12 as claimed: after clean_command_cache(max_age) the cache holds exactly
\* the records that before the call were neither COMPLETED nor FAILED and not
\* older than max_age, each with its fields unchanged.
C12_SweepExact ==
    [][SweepReturns
         => \A c \in CmdIds :
              IF InCache(c) /\ Rec(c).status \notin Terminal
                   /\ now - Rec(c).timestamp.t <= last'.max_age
              THEN command_cache'[c] # NoRef /\ heap'[command_cache'[c]] = Rec(c)
              ELSE command_cache'[c] = NoRef]_vars

\* a Python int, as a value a call may return
PyInt(n) == [int |-> n]

\* C13 as claimed: clean_command_cache returns the number of records it
\* removed, the cache size before the call minus the size after it.
C13_Original ==
    [][SweepReturns
         => last'.returned = PyInt(Cardinality(CachedIds) - Cardinality(CachedIdsAfter))]_vars

\* C13 amended: clean_command_cache returns nothing; when the sweep completes
\* the count it logs is the cache size before the call minus the size after
\* it, and when it raises nothing is removed and nothing is logged.
C13_Amended ==
    [][SweepReturns
         => IF last'.returned = PyNone
            THEN last'.logged = Cardinality(CachedIds) - Cardinality(CachedIdsAfter)
            ELSE /\ "raise" \in DOMAIN last'.returned
                 /\ last'.logged = PyNone
                 /\ CacheUnchanged]_vars

C13_Witness ==
    /\ last.name = "clean_command_cache"
    /\ last.returned = PyNone
    /\ last.logged = 1
    /\ \E c \in CmdIds : InCache(c)

\* ---------------------------------------------------------------------
\* HistSpec: one caller submitting commands for two vehicles, looking ids up
\* and reading the per-vehicle history.
HistVehicles == Vehicles \cup {"v2"}
\* a zoned createdAt one clock unit after UpstreamZoned
UpstreamZonedLater == [UpstreamZoned EXCEPT !.t = @ + 1]
HistPayloads == {PyNone, BareReply(PENDING), FullReply(EXECUTING, UpstreamZoned),
                 FullReply(EXECUTING, UpstreamZonedLater),
                 FullReply(COMPLETED, UpstreamNaive)}
HistStatusResponses ==
    {[kind |-> "json", hasData |-> TRUE, getVehicleCommand |-> r] : r \in HistPayloads}

HistNext ==
    \/ /\ \E v \in HistVehicles : ExecuteBegin(Caller, "wake_vehicle", v)
       /\ UNCHANGED <<route_vars, web_vars>>
    \/ /\ \E resp \in SeqSendResponses : ExecuteComplete(Caller, resp)
       /\ UNCHANGED <<route_vars, web_vars>>
    \/ /\ \E c \in SeqIds : GetStatusBegin(Caller, c)
       /\ UNCHANGED <<route_vars, web_vars>>
    \/ /\ \E resp \in HistStatusResponses : GetStatusCachedComplete(Caller, resp)
       /\ UNCHANGED <<route_vars, web_vars>>
    \/ /\ \E resp \in HistStatusResponses : GetStatusNewComplete(Caller, resp)
       /\ UNCHANGED <<route_vars, web_vars>>
    \/ /\ AllIdle /\ Tick
       /\ UNCHANGED <<route_vars, web_vars>>
    \/ /\ \E v \in HistVehicles, items \in IterationOrders(CachedIds) :
             AllIdle /\ CommandHistory(v, items)
       /\ UNCHANGED <<route_vars, web_vars>>

HistSpec == Init /\ [][HistNext]_vars

\* the offsets from UTC the server's local clock may have: on UTC, or behind
\* it so that every createdAt above lies before the server's first clock reading
UtcOffsets == (0 - MaxUtcOffset)..0
\* the instant a timestamp denotes: a zoned text says it, a naive one is the
\* server's local time
Instant(ts, offset) == IF ts.naive THEN ts.t - offset ELSE ts.t

\* C14 as claimed: the history of a vehicle lists exactly the cached records
\* of that vehicle, each once, newest creation time first, records
\* synthesized by get_command_status included, wherever the server runs
\* (records whose timestamps read the same to the tick may come either way).
C14_HistoryNewestFirst ==
    last.name = "command_history"
    => LET commands == last.returned.commands IN
       /\ {commands[i].command_id : i \in 1..Len(commands)}
            = {c \in CachedIds : Rec(c).vehicle_id = last.vehicle_id}
       /\ Len(commands) = Cardinality({c \in CachedIds : Rec(c).vehicle_id = last.vehicle_id})
       /\ \A offset \in UtcOffsets : \A i, j \in 1..Len(commands) :
            (i < j /\ commands[i].timestamp.t # commands[j].timestamp.t)
            => Instant(commands[i].timestamp, offset)
                 >= Instant(commands[j].timestamp, offset)

\* C15 as claimed: two successive get_command_status calls for the same id
\* return the same result in every field; here the second call is answered
\* from the cache, so upstream has no part in it.
C15_Idempotent ==
    [][(/\ last.name = "get_command_status"
        /\ last.returned.status = "success"
        /\ last'.name = "get_command_status"
        /\ last'.op.command_id = last.op.command_id
        /\ last'.queries = 0)
         => last'.returned = last.returned]_vars

\* the step stores the record execute_command has just made under id c
ExecuteStores(c) ==
    /\ last'.name = "execute_command"
    /\ last'.returned.status = "success"
    /\ last'.returned.command_id = c

SigningParams == {"phone_id", "identity_id", "vehicle_key", "private_key"}
\* the vehicles upstream lists for the logged-in user
UserVehicles == Vehicles
\* the ids a request may name: the user's, and one upstream does not list
RouteVehicles == UserVehicles \cup {"v9"}
\* request.json: nothing, or a dictionary with its command ("" when it has
\* none) and the signing parameters it lacks
Bodies == {EmptyDict}
            \cup {[command |-> c, absent |-> A] :
                    c \in CommandNames \cup {""}, A \in SUBSET SigningParams}

\* the JSON bodies of get_user_information, or a transport failure
UserInfoResponses == {[kind |-> "raise", message |-> m] : m \in ErrorMessages}
                       \cup {[kind |-> "json", hasUser |-> FALSE]}
                       \cup {[kind |-> "json", hasUser |-> TRUE, vehicles |-> V] :
                               V \in SUBSET UserVehicles}

\* RivianClient.get_user_info (rivian_client.py lines 103-123)
ClientGetUserInfo(resp) ==
    IF resp.kind = "raise" THEN resp
    ELSE IF resp.hasUser THEN [kind |-> "value", vehicles |-> resp.vehicles]
    ELSE [kind |-> "raise", message |-> "Failed to get user information"]

\* mutant: the private key is not among the parameters checked
MissingCredentialsButKey(body) == body.absent \ {"private_key"} # {}

\* `not all([phone_id, identity_id, vehicle_key, private_key])` (line 124)
MissingCredentials(body) == body.absent # {}

\* lines 110-125: the message of the first check that fails, or nothing
ValidationError(body) ==
    IF ~Truthy(body) THEN <<"Missing request data">>
    ELSE IF body.command = "" THEN <<"Command is required">>
    ELSE IF MissingCredentials(body) THEN <<"Missing required parameters for command">>
    ELSE <<>>

\* mutant: every id is taken for a vehicle of the client
ResolvesAlways(vehicles, vehicle_id) == TRUE

\* `client.vehicles.get(vehicle_id)` is truthy (lines 134-135)
Resolves(vehicles, vehicle_id) == vehicle_id \in vehicles

\* the HTTP response to request req, with the upstream calls made for it
Responded(req, code, body) ==
    [code |-> code, body |-> body, vehicle_id |-> req.vehicle_id,
     data |-> req.body, tokens |-> req.tokens,
     netcalls |-> req.netcalls, sends |-> req.sends]

\* the route answers without calling the handler
RouteReturns(req, code, message) ==
    /\ response' = Responded(req, code, [error |-> message])
    /\ request' = NoRequest
    /\ last' = NoEvent
    /\ UNCHANGED <<command_cache, heap, pc, op, cached, now>>

\* the route suspends at an await of its own
RouteAwaits(req, where) ==
    /\ request' = [req EXCEPT !.pc = where]
    /\ response' = NoResponse
    /\ last' = NoEvent
    /\ UNCHANGED <<command_cache, heap, pc, op, cached, now>>

\* lines 134-147: look the vehicle up among `vehicles`, then call
\* execute_command, which returns at once for an invalid name and otherwise
\* suspends in the send
RouteLookup(req, vehicles) ==
    IF ~Resolves(vehicles, req.vehicle_id)
    THEN RouteReturns(req, 404, <<"Vehicle not found">>)
    ELSE /\ ExecuteBegin(Caller, req.body.command, req.vehicle_id)
         /\ IF last'.name = "execute_command"
            THEN /\ response' = Responded(req, 500, [error |-> last'.returned.message])
                 /\ request' = NoRequest
            ELSE /\ response' = NoResponse
                 /\ request' = [req EXCEPT !.pc = "execute"]

\* lines 108-132: the checks on the body, then the vehicles, fetched first if
\* the client holds none
RouteContinue(req, vehicles) ==
    IF ValidationError(req.body) # <<>>
    THEN RouteReturns(req, 400, ValidationError(req.body))
    ELSE IF vehicles = {} THEN RouteAwaits(req, "user_info")
    ELSE RouteLookup(req, vehicles)

\* lines 94-106: the request arrives and the shared client is initialized with
\* the user's tokens; with an access token and a session token initialize
\* awaits get_user_info (rivian_client.py lines 43-44)
VehicleCommandRequest(vehicle_id, body, tokens) ==
    /\ request = NoRequest
    /\ AllIdle
    /\ UNCHANGED client_vehicles
    /\ LET req == [pc |-> "initialize", vehicle_id |-> vehicle_id, body |-> body,
                   tokens |-> tokens, netcalls |-> 0, sends |-> 0]
       IN IF tokens THEN RouteAwaits(req, "initialize")
          ELSE RouteContinue(req, client_vehicles)

\* the get_user_info inside initialize returns or raises; the call is outside
\* the route's try, so an exception leaves the route unhandled
InitializeComplete(resp) ==
    /\ request.pc = "initialize"
    /\ LET out == ClientGetUserInfo(resp)
           req == [request EXCEPT !.netcalls = @ + 1]
       IN IF out.kind = "raise"
          THEN /\ UNCHANGED client_vehicles
               /\ RouteReturns(req, 500, <<"Internal Server Error">>)
          ELSE /\ client_vehicles' = out.vehicles
               /\ RouteContinue(req, out.vehicles)

\* lines 131-132: the route's own get_user_info returns or raises; upstream
\* lists a user's vehicles only to a client that carries the user's tokens
UserInfoComplete(resp) ==
    /\ request.pc = "user_info"
    /\ request.tokens \/ ClientGetUserInfo(resp).kind = "raise"
    /\ LET out == ClientGetUserInfo(resp)
           req == [request EXCEPT !.netcalls = @ + 1]
       IN IF out.kind = "raise"
          THEN /\ UNCHANGED client_vehicles
               /\ RouteReturns(req, 500, <<out.message>>)
          ELSE /\ client_vehicles' = out.vehicles
               /\ RouteLookup(req, out.vehicles)

\* lines 139-152: execute_command returns and the route answers with its result
SendComplete(resp) ==
    /\ request.pc = "execute"
    /\ ExecuteComplete(Caller, resp)
    /\ LET req == [request EXCEPT !.netcalls = @ + 1, !.sends = @ + 1]
       IN response' = IF last'.returned.status = "error"
                      THEN Responded(req, 500, [error |-> last'.returned.message])
                      ELSE Responded(req, 200, last'.returned)
    /\ request' = NoRequest
    /\ UNCHANGED client_vehicles

\* RouteSpec: command submissions served one after another
RouteNext ==
    \/ \E v \in RouteVehicles, body \in Bodies, tokens \in BOOLEAN :
         VehicleCommandRequest(v, body, tokens) /\ UNCHANGED web_vars
    \/ \E resp \in UserInfoResponses : InitializeComplete(resp) /\ UNCHANGED web_vars
    \/ \E resp \in UserInfoResponses : UserInfoComplete(resp) /\ UNCHANGED web_vars
    \/ \E resp \in SeqSendResponses : SendComplete(resp) /\ UNCHANGED web_vars

RouteSpec == Init /\ [][RouteNext]_vars

\* the step returns an HTTP response
Answered == response' # NoResponse
\* a body that names a command
NamesCommand(body) == Truthy(body) /\ body.command # ""
\* a body that names a command and lacks a signing parameter
LacksCredentials(body) == NamesCommand(body) /\ body.absent # {}
\* the response reports that fetching the user's vehicles failed: unhandled
\* inside initialize, caught by the route's except otherwise
FetchFailed(resp) ==
    /\ resp.code = 500
    /\ resp.netcalls > 0
    /\ resp.sends = 0
    /\ resp.body.error \in {<<"Internal Server Error">>, <<"Failed to get user information">>}
                             \cup {<<m>> : m \in ErrorMessages}

ValidationFailure(resp) ==
    \/ resp.code = 400 /\ resp.body.error = <<"Missing required parameters for command">>
    \/ resp.code = 404 /\ resp.body.error = <<"Vehicle not found">>
    \/ resp.code = 500 /\ resp.body.error[1] = "Invalid command: "

\* C18 as claimed: a submission that fails validation (invalid command name,
\* missing credentials, vehicle not found) is answered before any call to
\* upstream is made for it, and with the cache unchanged.
C18_ValidationBeforeNetwork ==
    [][(Answered /\ ValidationFailure(response'))
         => /\ response'.netcalls = 0
            /\ CacheUnchanged]_vars

C20_ExecuteStoresPending ==
    [][(SendReturns(last'.resp) /\ ~SendFails(last'.resp))
         => LET c == last'.resp.command_id
                new == heap'[command_cache'[c]]
            IN
            /\ last'.returned.status = "success"
            /\ last'.returned.command_id = c
            /\ c # ""
            /\ command_cache'[c] # NoRef
            /\ new.status = PENDING
            /\ new.result = PyNone
            /\ new.command = op[Caller].command
            /\ new.vehicle_id = op[Caller].vehicle_id
            /\ \A d \in CmdIds \ {c} :
                 /\ (command_cache'[d] # NoRef) = InCache(d)
                 /\ InCache(d) => heap'[command_cache'[d]] = Rec(d)]_vars

C20_Witness ==
    /\ last.name = "execute_command"
    /\ last.returned.status = "success"
    /\ Rec(last.returned.command_id).status = PENDING
    /\ Rec(last.returned.command_id).command = last.op.command
    /\ \E d \in CmdIds \ {last.returned.command_id} :
         InCache(d) /\ Rec(d).status # PENDING

\* C21: an execute_command call makes at most one send_vehicle_command
\* call: every suspended call returns in the step in which its send returns
\* or raises, having made that one send, and a call refused for its name has
\* made none.
C21_NoRetry ==
    [][/\ \A p \in Procs :
            (pc[p] = "send" /\ (pc'[p] # "send" \/ last' # NoEvent))
            => /\ pc'[p] = "idle"
               /\ last'.name = "execute_command"
               /\ last'.proc = p
               /\ last'.sends = 1
       /\ last'.name = "execute_command" => last'.sends <= 1
       /\ (last'.name = "execute_command" /\ pc = pc') => last'.sends = 0]_vars

C21_Witness ==
    /\ last.name = "execute_command"
    /\ last.sends = 1
    /\ last.resp.kind = "raise"
    /\ last.returned.status = "error"
    /\ pc[last.proc] = "idle"

\* C22 as claimed: when the send raises with message m, the message of the
\* error execute_command returns is exactly m.
C22_Original ==
    [][(SendReturns(last'.resp) /\ last'.resp.kind = "raise")
         => last'.returned.message = <<last'.resp.message>>]_vars

\* C22 amended: when the send raises with message m, execute_command returns
\* an error whose message is "Error executing command: " followed by m
\* unaltered; when the send returns no command id the message is
\* "Failed to send command".
C22_Amended ==
    [][(SendReturns(last'.resp) /\ SendFails(last'.resp))
         => /\ last'.returned.status = "error"
            /\ last'.returned.message =
                 IF last'.resp.kind = "raise"
                 THEN <<"Error executing command: ", last'.resp.message>>
                 ELSE <<"Failed to send command">>]_vars

C22_Witness ==
    /\ last.name = "execute_command"
    /\ last.resp.kind = "raise"
    /\ last.returned.message = <<"Error executing command: ", last.resp.message>>

HandlerCalls == {"execute_command", "get_command_status"}

\* C24: whatever upstream does (replies, replies with nothing, raises), an
\* execute_command or get_command_status call raises nothing to its caller:
\* the step in which the upstream call ends is the step in which the call
\* returns, and what it returns has status "success" or "error".
C24_NoException ==
    [][/\ last'.name \in HandlerCalls
          => last'.returned.status \in {"success", "error"}
       /\ \A p \in Procs :
            (pc[p] # "idle" /\ pc'[p] # pc[p])
            => /\ pc'[p] = "idle"
               /\ last'.name = op[p].name
               /\ last'.proc = p
               /\ last'.returned.status \in {"success", "error"}]_vars

C24_Witness ==
    /\ last.name = "get_command_status"
    /\ last.resp.kind = "raise"
    /\ last.returned.status = "error"
    /\ ~InCache(last.op.command_id)

\* ---------------------------------------------------------------------
\* LiveSpec: one caller's calls, the sweep running in between at any moment,
\* against an upstream that ends every call made to it, by a reply or by a
\* failure no later than the client's request_timeout (rivian_client.py
\* lines 15-17 and 32-33).
LiveStatusResponses ==
    {r \in StatusResponses : r.kind = "json" => r.hasData /\ r.getVehicleCommand \in ConcPayloads}

LiveExecuteComplete ==
    \E resp \in SeqSendResponses : ExecuteComplete(Caller, resp) /\ UNCHANGED <<route_vars, web_vars>>
LiveGetStatusCachedComplete ==
    \E resp \in LiveStatusResponses :
      GetStatusCachedComplete(Caller, resp) /\ UNCHANGED <<route_vars, web_vars>>
LiveGetStatusNewComplete ==
    \E resp \in LiveStatusResponses :
      GetStatusNewComplete(Caller, resp) /\ UNCHANGED <<route_vars, web_vars>>

LiveNext ==
    \/ /\ \E command \in CommandNames, v \in Vehicles : ExecuteBegin(Caller, command, v)
       /\ UNCHANGED <<route_vars, web_vars>>
    \/ LiveExecuteComplete
    \/ /\ \E c \in SeqIds : GetStatusBegin(Caller, c)
       /\ UNCHANGED <<route_vars, web_vars>>
    \/ LiveGetStatusCachedComplete
    \/ LiveGetStatusNewComplete
    \/ /\ CleanCommandCache(MaxTime)
       /\ UNCHANGED <<route_vars, web_vars>>

\* every call made to upstream ends
UpstreamAnswers ==
    /\ WF_vars(LiveExecuteComplete)
    /\ WF_vars(LiveGetStatusCachedComplete)
    /\ WF_vars(LiveGetStatusNewComplete)

LiveSpec == Init /\ [][LiveNext]_vars /\ UpstreamAnswers

\* C23: provided every upstream call replies or fails, an execute_command or
\* get_command_status call that is waiting for upstream eventually returns
\* to its caller (clean_command_cache makes no upstream call and ends in the
\* step it is made).
C23_EveryCallReturns ==
    (pc[Caller] # "idle") ~> (pc[Caller] = "idle")

C23_Witness ==
    /\ last.name = "execute_command"
    /\ last.resp.kind = "raise"
    /\ last.resp.message = "timeout"
    /\ AllIdle
    /\ \E c \in CmdIds : InCache(c)

\* =====================================================================
\* api/routes.py command_status: GET /command/<command_id>
\* =====================================================================
\* the HTTP response to status request req
StatusResponded(req, code, body) ==
    [code |-> code, body |-> body, command_id |-> req.command_id,
     tokens |-> req.tokens, netcalls |-> req.netcalls]

\* lines 176-181: the handler's result becomes the response, an error result
\* of any kind a 404
StatusAnswer(req, result) ==
    IF result.status = "error"
    THEN StatusResponded(req, 404, [error |-> result.message])
    ELSE StatusResponded(req, 200, result)

\* lines 174-181: get_command_status is called; it returns at once for a
\* record that needs no refresh and otherwise suspends in the query
StatusLookup(req) ==
    /\ GetStatusBegin(Caller, req.command_id)
    /\ IF last'.name = "get_command_status"
       THEN /\ response' = StatusAnswer(req, last'.returned)
            /\ request' = NoRequest
       ELSE /\ response' = NoResponse
            /\ request' = [req EXCEPT !.pc = "status_query"]

\* lines 158-172: the request arrives and the shared client is initialized
CommandStatusRequest(command_id, tokens) ==
    /\ request = NoRequest
    /\ AllIdle
    /\ UNCHANGED client_vehicles
    /\ LET req == [pc |-> "status_initialize", command_id |-> command_id,
                   tokens |-> tokens, netcalls |-> 0]
       IN IF tokens
          THEN /\ request' = req
               /\ response' = NoResponse
               /\ last' = NoEvent
               /\ UNCHANGED <<command_cache, heap, pc, op, cached, now>>
          ELSE StatusLookup(req)

\* the get_user_info inside initialize returns or raises (outside the try)
StatusInitializeComplete(resp) ==
    /\ request.pc = "status_initialize"
    /\ LET out == ClientGetUserInfo(resp)
           req == [request EXCEPT !.netcalls = @ + 1]
       IN IF out.kind = "raise"
          THEN /\ UNCHANGED client_vehicles
               /\ response' = StatusResponded(req, 500, [error |-> <<"Internal Server Error">>])
               /\ request' = NoRequest
               /\ last' = NoEvent
               /\ UNCHANGED <<command_cache, heap, pc, op, cached, now>>
          ELSE /\ client_vehicles' = out.vehicles
               /\ StatusLookup(req)

\* lines 174-181: the handler's query ends and the route answers
StatusQueryComplete(resp) ==
    /\ request.pc = "status_query"
    /\ \/ GetStatusCachedComplete(Caller, resp)
       \/ GetStatusNewComplete(Caller, resp)
    /\ response' = StatusAnswer([request EXCEPT !.netcalls = @ + 1], last'.returned)
    /\ request' = NoRequest
    /\ UNCHANGED client_vehicles

\* StatusRouteSpec: commands stored by execute_command, the sweep, and status
\* requests served one after another
StatusRouteNext ==
    \/ /\ \E v \in Vehicles : ExecuteBegin(Caller, "wake_vehicle", v)
       /\ request = NoRequest
       /\ UNCHANGED <<route_vars, web_vars>>
    \/ /\ \E resp \in SeqSendResponses : ExecuteComplete(Caller, resp)
       /\ request = NoRequest
       /\ UNCHANGED <<route_vars, web_vars>>
    \/ \E c \in SeqIds, tokens \in BOOLEAN :
         CommandStatusRequest(c, tokens) /\ UNCHANGED web_vars
    \/ \E resp \in UserInfoResponses : StatusInitializeComplete(resp) /\ UNCHANGED web_vars
    \/ \E resp \in LiveStatusResponses : StatusQueryComplete(resp) /\ UNCHANGED web_vars

StatusRouteSpec == Init /\ [][StatusRouteNext]_vars

\* the step answers a status request
StatusAnswered == response' # NoResponse /\ "command_id" \in DOMAIN response'

\* C25 as claimed: the status endpoint answers 404 only when the command is
\* neither in the cache nor known upstream; when the upstream query fails the
\* answer is not the 404.
C25_NotFoundOnlyWhenAbsent ==
    [][(StatusAnswered /\ pc[Caller] # "idle")
         => /\ response'.code = 404
               => /\ ~InCache(response'.command_id)
                  /\ HasPayload(last'.resp)
                  /\ ~Truthy(Payload(last'.resp))
            /\ QueryRaises(last'.resp) => response'.code # 404]_vars

\* =====================================================================
\* security.py rate_limit, as applied to the login and OTP routes
\* =====================================================================
\* auth/routes.py: @rate_limit(max_requests=10, per_seconds=60) on /auth/login
\* and @rate_limit(max_requests=5, per_seconds=60) on /auth/verify-otp
Limit(path) ==
    IF path = "/auth/login" THEN [max_requests |-> 10, per_seconds |-> 60]
    ELSE [max_requests |-> 5, per_seconds |-> 60]

\* `key not in g`: g contains the names of the attributes set on it
InG(key, ctx) == key \in ctx.attrs
\* lines 54-55: g.rate_limit = {} unless g has an attribute named by the key
WithRateLimit(key, ctx) ==
    IF ~InG(key, ctx)
    THEN [attrs |-> ctx.attrs \cup {<<"rate_limit">>}, keys |-> {},
          rate_limit |-> [k \in Keys |-> <<>>]]
    ELSE ctx
\* lines 57-58: g.rate_limit[key] = [] when the key is new
WithKey(key, ctx) ==
    IF key \notin ctx.keys
    THEN [ctx EXCEPT !.keys = @ \cup {key}, !.rate_limit[key] = <<>>]
    ELSE ctx
\* lines 60-62: the times younger than per_seconds are kept
Recent(times, current_time, per_seconds) ==
    SelectSeq(times, LAMBDA t : current_time - t < per_seconds)
\* the requests accepted for the key inside the window, in fact
AcceptedInWindow(key, current_time, per_seconds) ==
    Len(Recent(accepted[key], current_time, per_seconds))

\* a request to a rate-limited route: the decorator runs, then the handler.
\* The application context, and g with it, is either new for the request or
\* the one an enclosing context left pushed.
RateLimitedRequest(ip, path, inherited) ==
    /\ Len(accepted[Key(ip, path)]) <= Limit(path).max_requests
    /\ LET key == Key(ip, path)
           lim == Limit(path)
           current_time == now
           g1 == WithKey(key, WithRateLimit(key, inherited))
           g2 == [g1 EXCEPT !.rate_limit[key] =
                                Recent(@, current_time, lim.per_seconds)]
           seen == AcceptedInWindow(key, current_time, lim.per_seconds)
       IN IF Len(g2.rate_limit[key]) >= lim.max_requests
          THEN /\ g' = g2
               /\ limited' = [code |-> 429, ran |-> FALSE, key |-> key,
                              seen |-> seen, limit |-> lim]
               /\ UNCHANGED accepted
          ELSE /\ g' = [g2 EXCEPT !.rate_limit[key] = Append(@, current_time)]
               /\ limited' = [code |-> 200, ran |-> TRUE, key |-> key,
                              seen |-> seen, limit |-> lim]
               /\ accepted' = [accepted EXCEPT ![key] = Append(@, current_time)]
    /\ UNCHANGED <<command_cache, heap, pc, op, cached, now, last, route_vars,
                   sock_vars, login_vars>>

\* time passes between requests
LimitTick ==
    /\ Tick
    /\ limited' = NoLimited
    /\ UNCHANGED <<g, accepted, route_vars, sock_vars, login_vars>>

LimitNext ==
    \/ \E ip \in Addresses, path \in Paths, inherited \in {EmptyG, g} :
         RateLimitedRequest(ip, path, inherited)
    \/ LimitTick

LimitSpec == Init /\ [][LimitNext]_vars

\* C26 as claimed: once max_requests requests of one address to one path were
\* accepted inside the window, the next one is answered 429 and its handler
\* is not run.
C26_RejectsOverLimit ==
    (limited # NoLimited /\ limited.seen >= limited.limit.max_requests)
        => (limited.code = 429 /\ ~limited.ran)

\* C27: a get_command_status(id) call changes at most the cache entry for id:
\* it leaves every record stored under another id as it was, removes no entry,
\* and of a record already stored under id it changes nothing but status and
\* result (an absent id may be inserted).
C27_StatusFrame ==
    [][last'.name = "get_command_status" =>
         LET c == last'.op.command_id
         IN /\ \A d \in CmdIds \ {c} :
                 /\ command_cache'[d] = command_cache[d]
                 /\ InCache(d) => heap'[command_cache'[d]] = Rec(d)
            /\ InCache(c) =>
                 /\ command_cache'[c] # NoRef
                 /\ heap'[command_cache'[c]].command = Rec(c).command
                 /\ heap'[command_cache'[c]].vehicle_id = Rec(c).vehicle_id
                 /\ heap'[command_cache'[c]].timestamp = Rec(c).timestamp]_vars

C27_Witness ==
    /\ last.name = "get_command_status"
    /\ last.queries = 1
    /\ last.returned.status = "success"
    /\ last.returned.command_status # PENDING
    /\ Rec(last.op.command_id).command = "wake_vehicle"
    /\ \E d \in CmdIds \ {last.op.command_id} : InCache(d) /\ Rec(d).status = PENDING

\* =====================================================================
\* socket_manager.py and RivianClient's subscriptions
\* =====================================================================
\* the state of the command handler
handler_vars == <<command_cache, heap, pc, op, cached, now, last>>

\* how an upstream subscribe ends: the client was never initialized, the call
\* raises, returns nothing, or returns an unsubscribe function
SubscribeOutcomes == {"uninitialized", "raise", "none", "ok"}
\* how a stored unsubscribe function ends when awaited
UnsubscribeOutcomes == {"ok", "raise"}

\* vehicle_subscribers.get(vehicle_id, set())
SubscribersOf(vs, v) == IF vs[v].present THEN vs[v].sids ELSE {}
\* the event handled, with what the handler returned
Handled(name, sid, vehicle_id, ret) ==
    [name |-> name, sid |-> sid, vehicle_id |-> vehicle_id, ret |-> ret]

\* rivian_client.py lines 174-180
ClientUnsubscribe(subs, v, uns) ==
    IF v \in subs
    THEN IF uns = "raise" THEN [kind |-> "raise", subs |-> subs]
         ELSE [kind |-> "ok", subs |-> subs \ {v}]
    ELSE [kind |-> "ok", subs |-> subs]

\* rivian_client.py lines 154-172
ClientSubscribe(subs, v, sub, uns) ==
    IF sub = "uninitialized" THEN [kind |-> "raise", subs |-> subs]
    ELSE LET u == ClientUnsubscribe(subs, v, uns)
         IN IF u.kind = "raise" THEN u
            ELSE IF sub = "raise" THEN [kind |-> "raise", subs |-> u.subs]
            ELSE IF sub = "ok" THEN [kind |-> "ok", subs |-> u.subs \cup {v}]
            ELSE [kind |-> "ok", subs |-> u.subs]

\* lines 87-94
Connect(sid) ==
    /\ ~connections[sid].present
    /\ sid \notin closed
    /\ connections' = [connections EXCEPT ![sid] = NewConnection]
    /\ event' = Handled("connect", sid, "", "none")
    /\ UNCHANGED <<vehicle_subscribers, sid_to_user, subscriptions, closed>>
    /\ UNCHANGED <<handler_vars, route_vars, limit_vars, login_vars>>

\* lines 124-142
Authenticate(sid, user_id, access_token) ==
    /\ connections[sid].present
    /\ IF user_id = "" \/ access_token = ""
       THEN /\ event' = Handled("authenticate", sid, "", "error")
            /\ UNCHANGED <<connections, sid_to_user>>
       ELSE /\ connections' = [connections EXCEPT ![sid].user_id = user_id]
            /\ sid_to_user' = [sid_to_user EXCEPT ![sid] = user_id]
            /\ event' = Handled("authenticate", sid, "", "authenticated")
    /\ UNCHANGED <<vehicle_subscribers, subscriptions, closed>>
    /\ UNCHANGED <<handler_vars, route_vars, limit_vars, login_vars>>

\* lines 145-177
SubscribeVehicle(sid, vehicle_id, sub, uns) ==
    /\ connections[sid].present
    /\ IF vehicle_id = "" \/ connections[sid].user_id = "None"
       THEN /\ event' = Handled("subscribe_vehicle", sid, vehicle_id, "error")
            /\ UNCHANGED <<connections, vehicle_subscribers, subscriptions>>
       ELSE LET sids == SubscribersOf(vehicle_subscribers, vehicle_id) \cup {sid}
                out == ClientSubscribe(subscriptions, vehicle_id, sub, uns)
            IN /\ vehicle_subscribers' =
                    [vehicle_subscribers EXCEPT
                       ![vehicle_id] = [present |-> TRUE, sids |-> sids]]
               /\ connections' =
                    [connections EXCEPT ![sid].vehicles = @ \cup {vehicle_id}]
               /\ IF Cardinality(sids) = 1
                  THEN /\ subscriptions' = out.subs
                       /\ event' = Handled("subscribe_vehicle", sid, vehicle_id,
                                     IF out.kind = "raise" THEN "error" ELSE "subscribed")
                  ELSE /\ UNCHANGED subscriptions
                       /\ event' = Handled("subscribe_vehicle", sid, vehicle_id,
                                           "subscribed")
    /\ UNCHANGED <<sid_to_user, closed>>
    /\ UNCHANGED <<handler_vars, route_vars, limit_vars, login_vars>>

\* lines 180-205
UnsubscribeVehicle(sid, vehicle_id, uns) ==
    /\ connections[sid].present
    /\ IF vehicle_id = ""
       THEN /\ event' = Handled("unsubscribe_vehicle", sid, vehicle_id, "error")
            /\ UNCHANGED <<connections, vehicle_subscribers, subscriptions>>
       ELSE LET sids == SubscribersOf(vehicle_subscribers, vehicle_id) \ {sid}
                known == vehicle_subscribers[vehicle_id].present
                out == IF known /\ sids = {}
                       THEN ClientUnsubscribe(subscriptions, vehicle_id, uns)
                       ELSE [kind |-> "ok", subs |-> subscriptions]
            IN /\ vehicle_subscribers' =
                    IF known
                    THEN [vehicle_subscribers EXCEPT ![vehicle_id].sids = sids]
                    ELSE vehicle_subscribers
               /\ subscriptions' = out.subs
               /\ IF out.kind = "raise"
                  THEN /\ UNCHANGED connections
                       /\ event' = Handled("unsubscribe_vehicle", sid, vehicle_id,
                                           "error")
                  ELSE /\ connections' =
                            [connections EXCEPT ![sid].vehicles = @ \ {vehicle_id}]
                       /\ event' = Handled("unsubscribe_vehicle", sid, vehicle_id,
                                           "unsubscribed")
    /\ UNCHANGED <<sid_to_user, closed>>
    /\ UNCHANGED <<handler_vars, route_vars, limit_vars, login_vars>>

\* lines 96-121; uns[v] is how the unsubscribe of vehicle v ends, if awaited
Disconnect(sid, uns) ==
    /\ connections[sid].present
    /\ LET mine == {v \in connections[sid].vehicles : vehicle_subscribers[v].present}
           vs == [v \in SockVehicles |->
                    IF v \in mine
                    THEN [vehicle_subscribers[v] EXCEPT !.sids = @ \ {sid}]
                    ELSE vehicle_subscribers[v]]
           dropped == {v \in mine :
                         /\ vs[v].sids = {}
                         /\ ClientUnsubscribe(subscriptions, v, uns[v]).kind = "ok"}
       IN /\ vehicle_subscribers' = vs
          /\ subscriptions' = subscriptions \ dropped
    /\ connections' = [connections EXCEPT ![sid] = NoConnection]
    /\ sid_to_user' = [sid_to_user EXCEPT ![sid] = NoUser]
    /\ closed' = closed \cup {sid}
    /\ event' = Handled("disconnect", sid, "", "none")
    /\ UNCHANGED <<handler_vars, route_vars, limit_vars, login_vars>>

\* SockSpec: socket events handled one at a time, each to its end
SockNext ==
    \/ \E sid \in Sids : Connect(sid)
    \/ \E sid \in Sids, user_id \in UserIds \cup {""}, access_token \in {"", "token"} :
         Authenticate(sid, user_id, access_token)
    \/ \E sid \in Sids, v \in SockVehicles \cup {""},
          sub \in SubscribeOutcomes, uns \in UnsubscribeOutcomes :
         SubscribeVehicle(sid, v, sub, uns)
    \/ \E sid \in Sids, v \in SockVehicles \cup {""}, uns \in UnsubscribeOutcomes :
         UnsubscribeVehicle(sid, v, uns)
    \/ \E sid \in Sids, uns \in [SockVehicles -> UnsubscribeOutcomes] :
         Disconnect(sid, uns)

SockSpec == Init /\ [][SockNext]_vars

\* C28 as claimed: after every event an upstream subscription is held for a
\* vehicle exactly when at least one socket id is subscribed to it.
C28_UpstreamIffSubscribed ==
    \A v \in SockVehicles :
        (v \in subscriptions) <=> (SubscribersOf(vehicle_subscribers, v) # {})

\* C29 as claimed: after every event a socket id is in vehicle_subscribers[v]
\* exactly when v is in connections[sid]['vehicles'], and after disconnect(sid)
\* the sid is in no subscriber set, in connections and in sid_to_user no more.
C29_IndexesAgree ==
    /\ \A sid \in Sids, v \in SockVehicles :
         (sid \in SubscribersOf(vehicle_subscribers, v))
           <=> (connections[sid].present /\ v \in connections[sid].vehicles)
    /\ event.name = "disconnect" =>
         /\ \A v \in SockVehicles : event.sid \notin SubscribersOf(vehicle_subscribers, v)
         /\ ~connections[event.sid].present
         /\ sid_to_user[event.sid] = NoUser

\* =====================================================================
\* backend/api/auth.py: the cookie-session login flow
\* =====================================================================
\* services/rivian_client.py authenticate: failure, tokens that need an OTP,
\* or tokens that need none
AuthOutcomes == {"fail", "otp", "ok"}
\* the tokens authenticate and validate_otp return
Tokens(otp_needed) == [otp_needed |-> otp_needed]
\* get_vehicles: nothing usable, or a non-empty list
VehicleOutcomes == {"none", "some"}

\* dependencies.py lines 13-24: the session a request carries; None without
\* a cookie or with one that fails verification
GetSessionData(b, valid) ==
    IF cookies[b].present /\ valid THEN cookies[b] ELSE NoCookie

\* what a login-flow request answered, with the session it found and the one
\* it set
Answers(name, b, code, requires_otp, before, after) ==
    [name |-> name, browser |-> b, code |-> code, requires_otp |-> requires_otp,
     before |-> before, after |-> after]

\* lines 66-71 and 125-130: the vehicles are stored when some were fetched
WithVehicles(sd, vehicles) ==
    IF vehicles = "some" THEN [sd EXCEPT !.vehicles = "some"] ELSE sd

\* lines 16-90
Login(b, valid, auth, vehicles) ==
    /\ LET found == GetSessionData(b, valid)
           session_data == IF found.present THEN found ELSE SessionData
       IN IF auth = "fail"
          THEN /\ answer' = Answers("login", b, 401, FALSE, found, found)
               /\ UNCHANGED cookies
          ELSE IF auth = "otp"
          THEN LET sd == [session_data EXCEPT !.otp_pending = TRUE,
                                              !.rivian_tokens = Tokens(TRUE)]
               IN /\ cookies' = [cookies EXCEPT ![b] = sd]
                  /\ answer' = Answers("login", b, 200, TRUE, found, sd)
          ELSE LET sd == WithVehicles(
                           [session_data EXCEPT !.rivian_authenticated = TRUE,
                                                !.rivian_tokens = Tokens(FALSE)],
                           vehicles)
               IN /\ cookies' = [cookies EXCEPT ![b] = sd]
                  /\ answer' = Answers("login", b, 200, FALSE, found, sd)
    /\ UNCHANGED <<handler_vars, route_vars, limit_vars, sock_vars>>

\* lines 93-149
VerifyOtp(b, valid, success, vehicles) ==
    /\ LET found == GetSessionData(b, valid)
       IN IF ~found.present \/ ~found.otp_pending \/ found.rivian_tokens = PyNone
          THEN /\ answer' = Answers("verify_otp", b, 400, FALSE, found, found)
               /\ UNCHANGED cookies
          ELSE IF ~success
          THEN /\ answer' = Answers("verify_otp", b, 401, FALSE, found, found)
               /\ UNCHANGED cookies
          ELSE LET sd == WithVehicles(
                           [found EXCEPT !.otp_pending = FALSE,
                                         !.rivian_authenticated = TRUE,
                                         !.rivian_tokens = Tokens(FALSE)],
                           vehicles)
               IN /\ cookies' = [cookies EXCEPT ![b] = sd]
                  /\ answer' = Answers("verify_otp", b, 200, FALSE, found, sd)
    /\ UNCHANGED <<handler_vars, route_vars, limit_vars, sock_vars>>

\* lines 152-156
Logout(b) ==
    /\ cookies' = [cookies EXCEPT ![b] = NoCookie]
    /\ answer' = Answers("logout", b, 200, FALSE, cookies[b], NoCookie)
    /\ UNCHANGED <<handler_vars, route_vars, limit_vars, sock_vars>>

LoginNext ==
    \/ \E b \in Browsers, valid \in BOOLEAN, auth \in AuthOutcomes,
          vehicles \in VehicleOutcomes : Login(b, valid, auth, vehicles)
    \/ \E b \in Browsers, valid, success \in BOOLEAN,
          vehicles \in VehicleOutcomes : VerifyOtp(b, valid, success, vehicles)
    \/ \E b \in Browsers : Logout(b)

LoginSpec == Init /\ [][LoginNext]_vars

\* C30 as claimed: no session is both otp_pending and rivian_authenticated; a
\* login that requires an OTP sets a session that is not authenticated; a
\* login or OTP verification that succeeds sets a session whose otp_pending
\* is false; verify-otp is rejected unless the session is otp_pending.
C30_PendingXorAuthenticated ==
    /\ \A b \in Browsers :
         cookies[b].present => ~(cookies[b].otp_pending /\ cookies[b].rivian_authenticated)
    /\ (answer.code = 200 /\ answer.name = "login" /\ answer.requires_otp)
         => ~answer.after.rivian_authenticated
    /\ (answer.code = 200 /\ answer.name \in {"login", "verify_otp"} /\ ~answer.requires_otp)
         => ~answer.after.otp_pending
    /\ (answer.name = "verify_otp" /\ answer.code # 400)
         => (answer.before.present /\ answer.before.otp_pending)

====
